---- MODULE Spec2Model ----
(***************************************************************************)
(* Key provisioning of the login server (src/config.js, "RSA Key Setup",   *)
(* lines 88-133): load ./private.key and ./public.key (or the configured   *)
(* paths), test the pair by signing and verifying a token, and otherwise   *)
(* either exit(1) or generate a new pair, rotate existing default files to *)
(* backup names and write the new pair.                                    *)
(*                                                                         *)
(* The filesystem is a function from the paths that exist to files.  Each  *)
(* fs call of the script is one atomic step of a process, so that two      *)
(* starting servers can be interleaved call by call.                       *)
(***************************************************************************)
EXTENDS Naturals, Sequences, FiniteSets, TLC

\* Highest backup index a file may occupy before the first run starts.
MaxBackup == 2

VARIABLES
  fs,          \* the directory: path -> [bytes, mode, readable], existing paths only
  fs0,         \* fs when the current run (or the pair of concurrent runs) started
  env,         \* process.env: JTW_PRIVATE_KEY_PATH, JTW_PUBLIC_KEY_PATH, JWT_ALGORITHM
  umask,       \* the process's file creation mask
  procs,       \* the server processes that are started
  pc,          \* per process: position in the script
  privateKey,  \* per process: `let privateKey` (line 88), <<>> = undefined
  publicKey,   \* per process: `let publicKey` (line 88), <<>> = undefined
  error,       \* per process: the caught exception, <<>> = none
  filename,    \* per process: loop variable of line 114
  index,       \* per process: `let index` (line 115)
  chosen,      \* per process: filename -> the index the while loop ended with
  console,     \* per process: the last console.log / console.error message
  exported,    \* per process: config.privateKey / config.publicKey, <<>> = unset
  generated,   \* number of keypairs generated so far (names the next fresh pair)
  run,         \* 1 = first start of the server, 2 = the start right after it
  first,       \* what the first run ended with (kept for the second run)
  overlapped   \* TRUE once a process took a step while another was mid-run

vars == <<fs, fs0, env, umask, procs, pc, privateKey, publicKey, error, filename,
          index, chosen, console, exported, generated, run, first, overlapped>>

Procs == {1, 2}

----------------------------------------------------------------------------
(* Values *)

Undefined == <<>>

\* JavaScript truthiness of an environment value: undefined and "" are falsy.
TruthyString(v) == v # Undefined /\ v[1] # ""

\* JavaScript truthiness of `privateKey` / `publicKey`: a Buffer is an object,
\* truthy whatever its length; only undefined is falsy.
TruthyBuffer(v) == v # Undefined

PrivatePem(id) == [kind |-> "private", id |-> id]
PublicPem(id) == [kind |-> "public", id |-> id]
Junk(id) == [kind |-> "junk", id |-> id]

\* line 116: let file = (index) => filename + (index ? `.backup.${index}` : "") + ".key"
file(name, i) == name \o (IF i # 0 THEN ".backup." \o ToString(i) ELSE "") \o ".key"

Filenames == <<"./private", "./public">>

DefaultPrivatePath == "./private.key"
DefaultPublicPath == "./public.key"
CustomPrivatePath == "/etc/login-server/jwt.pem"
CustomPublicPath == "/etc/login-server/jwt.pub"

\* lines 90-91: privateKeyPath || "./private.key"
ResolvePath(configured, default) == IF TruthyString(configured) THEN configured[1] ELSE default

PrivatePathOf(e) == ResolvePath(e.privateKeyPath, DefaultPrivatePath)
PublicPathOf(e) == ResolvePath(e.publicKeyPath, DefaultPublicPath)

\* fs.existsSync
existsSync(f, path) == path \in DOMAIN f

\* The exception an fs call throws for `path`: ENOENT when nothing is there,
\* otherwise the file is there and the call is refused (EACCES).
FsError(f, path, syscall) ==
  [name |-> "Error", code |-> IF existsSync(f, path) THEN "EACCES" ELSE "ENOENT",
   syscall |-> syscall, path |-> path]

\* The exception of a library call: no code, no syscall, no path.
LibraryError(name) ==
  [name |-> name, code |-> "undefined", syscall |-> "undefined", path |-> "undefined"]

\* fs.readFileSync succeeds on a file that is there and may be read.

CanRead(f, path) == existsSync(f, path) /\ f[path].readable

\* fs.writeFileSync(path, bytes): creates the file with mode 0666 & ~umask, or
\* replaces the bytes of an existing file and keeps its mode.
CreationMode(mask) == IF mask = "022" THEN "644" ELSE "600"

WriteFile(f, path, bytes, mask) ==
  [q \in DOMAIN f \cup {path} |->
     IF q # path THEN f[q]
     ELSE IF existsSync(f, path) THEN [f[path] EXCEPT !.bytes = bytes]
     ELSE [bytes |-> bytes, mode |-> CreationMode(mask), readable |-> TRUE]]

\* fs.chmodSync(path, mode) on an existing file.
Chmod(f, path, mode) == [f EXCEPT ![path] = [@ EXCEPT !.mode = mode, !.readable = TRUE]]

\* Mutant of line 122: the file is always moved to backup.1.
RenameTarget_FirstBackup(name, i) == file(name, 1)

\* line 122: the second argument of renameSync, file(index)
RenameTarget(name, i) == file(name, i)

\* Mutant of line 122: the file is copied, the old path stays.
RenameFile_Copy(f, old, new) ==
  [q \in DOMAIN f \cup {new} |-> IF q = new THEN f[old] ELSE f[q]]

\* fs.renameSync(old, new) with old existing: new is replaced if it exists.
RenameFile(f, old, new) ==
  [q \in (DOMAIN f \ {old}) \cup {new} |-> IF q = new THEN f[old] ELSE f[q]]

----------------------------------------------------------------------------
(* The keypair test, lines 92-94 *)

\* Signature algorithms an RSA key signs with; config.jwtOptions.algorithm is
\* process.env.JWT_ALGORITHM || "RS256" (line 37), any algorithm name.
RsaAlgorithms == {"RS256"}
Algorithms == {"RS256", "ES256"}

\* jwt.sign({ test: "test" }, privateKey, config.jwtOptions) then
\* jwt.verify(testToken, publicKey): "ok", or the call that throws.  Signing needs
\* a private key of the algorithm's family; verifying needs the public key of the
\* pair that signed.
RoundTrip(priv, pub, algorithm) ==
  IF priv.kind # "private" \/ algorithm \notin RsaAlgorithms THEN "sign"
  ELSE IF pub.kind # "public" \/ pub.id # priv.id THEN "verify"
  ELSE "ok"

\* error.name of what jwt.sign / jwt.verify throw.  The library decides it (its
\* own JsonWebTokenError, or the crypto layer's plain Error for key material it
\* cannot parse); the script only inspects it.
ThrownNames == {"JsonWebTokenError", "Error"}

\* Mutants of line 97: the test forgets the keys already read / the configured paths.
MustExit_PathsOnly(privateKeyPath, publicKeyPath, priv, pub) ==
  TruthyString(privateKeyPath) \/ TruthyString(publicKeyPath)

MustExit_BuffersOnly(privateKeyPath, publicKeyPath, priv, pub) ==
  TruthyBuffer(priv) \/ TruthyBuffer(pub)

\* line 97: if (privateKeyPath || publicKeyPath || privateKey || publicKey)
MustExit(privateKeyPath, publicKeyPath, priv, pub) ==
  \/ TruthyString(privateKeyPath)
  \/ TruthyString(publicKeyPath)
  \/ TruthyBuffer(priv)
  \/ TruthyBuffer(pub)

MissingFileMessage == "Error: Could not find key at path"
InvalidKeypairMessage == "Error: Testing provided keypair failed (could not verify a signed token)."
UnknownErrorMessage == "Error: Unkown error when loading keypair."
LoadedMessage == "Loaded RSA keypair."
GeneratingMessage == "Generating new keypair and saving to ./private.key and ./public.key..."

\* lines 98-106: the message chosen from error.name and error.code
Diagnostic(e) ==
  IF e.name = "Error" /\ e.code = "ENOENT" THEN MissingFileMessage
  ELSE IF e.name = "JsonWebTokenError" THEN InvalidKeypairMessage
  ELSE UnknownErrorMessage

\* lines 110-112: new rsa({ b: 2048 }), exported as a private and a public PEM
FreshPair(n) == "G" \o ToString(n + 1)

\* Mutant of lines 131-132: the two keys are exported swapped.
ExportedKeys_Swapped(priv, pub) == [privateKey |-> pub, publicKey |-> priv]

\* lines 131-132: config.privateKey = privateKey; config.publicKey = publicKey
ExportedKeys(priv, pub) == [privateKey |-> priv, publicKey |-> pub]

----------------------------------------------------------------------------
(* Positions of a process *)

Terminal == {"done", "fatal", "crashed"}
Idle == {"start"} \cup Terminal

\* History: p takes a step while another started process is in the middle of its run.
Observe(p) == overlapped' = (overlapped \/ \E q \in procs \ {p} : pc[q] \notin Idle)

NoChoice == [n \in {Filenames[1], Filenames[2]} |-> Undefined]

globals == <<env, umask, procs, run, first, fs0>>

----------------------------------------------------------------------------
(* The script, one fs or library call per step *)

\* line 90: privateKey = fs.readFileSync(privateKeyPath || "./private.key")
ReadPrivateKey(p) ==
  /\ pc[p] = "start"
  /\ LET path == PrivatePathOf(env) IN
       IF CanRead(fs, path)
       THEN /\ privateKey' = [privateKey EXCEPT ![p] = <<fs[path].bytes>>]
            /\ pc' = [pc EXCEPT ![p] = "read_public"]
            /\ error' = error
       ELSE /\ error' = [error EXCEPT ![p] = <<FsError(fs, path, "open")>>]
            /\ pc' = [pc EXCEPT ![p] = "catch"]
            /\ privateKey' = privateKey
  /\ Observe(p)
  /\ UNCHANGED <<fs, publicKey, filename, index, chosen, console, exported, generated, globals>>

\* line 91: publicKey = fs.readFileSync(publicKeyPath || "./public.key")
ReadPublicKey(p) ==
  /\ pc[p] = "read_public"
  /\ LET path == PublicPathOf(env) IN
       IF CanRead(fs, path)
       THEN /\ publicKey' = [publicKey EXCEPT ![p] = <<fs[path].bytes>>]
            /\ pc' = [pc EXCEPT ![p] = "validate"]
            /\ error' = error
       ELSE /\ error' = [error EXCEPT ![p] = <<FsError(fs, path, "open")>>]
            /\ pc' = [pc EXCEPT ![p] = "catch"]
            /\ publicKey' = publicKey
  /\ Observe(p)
  /\ UNCHANGED <<fs, privateKey, filename, index, chosen, console, exported, generated, globals>>

\* lines 93-95: sign a test token, verify it, log "Loaded RSA keypair."
Validate(p) ==
  /\ pc[p] = "validate"
  /\ IF RoundTrip(privateKey[p][1], publicKey[p][1], env.jwtAlgorithm) = "ok"
     THEN /\ console' = [console EXCEPT ![p] = LoadedMessage]
          /\ pc' = [pc EXCEPT ![p] = "export"]
          /\ error' = error
     ELSE /\ \E name \in ThrownNames :
               error' = [error EXCEPT ![p] = <<LibraryError(name)>>]
          /\ pc' = [pc EXCEPT ![p] = "catch"]
          /\ console' = console
  /\ Observe(p)
  /\ UNCHANGED <<fs, privateKey, publicKey, filename, index, chosen, exported, generated, globals>>

\* lines 96-109: exit(1) with a diagnostic, or announce the generation
Catch(p) ==
  /\ pc[p] = "catch"
  /\ IF MustExit(env.privateKeyPath, env.publicKeyPath, privateKey[p], publicKey[p])
     THEN /\ console' = [console EXCEPT ![p] = Diagnostic(error[p][1])]
          /\ pc' = [pc EXCEPT ![p] = "fatal"]
     ELSE /\ console' = [console EXCEPT ![p] = GeneratingMessage]
          /\ pc' = [pc EXCEPT ![p] = "generate"]
  /\ Observe(p)
  /\ UNCHANGED <<fs, privateKey, publicKey, error, filename, index, chosen, exported, generated, globals>>

\* lines 110-115: generate the pair, enter the loop with filename "./private", index 0
Generate(p) ==
  /\ pc[p] = "generate"
  /\ generated' = generated + 1
  /\ privateKey' = [privateKey EXCEPT ![p] = <<PrivatePem(FreshPair(generated))>>]
  /\ publicKey' = [publicKey EXCEPT ![p] = <<PublicPem(FreshPair(generated))>>]
  /\ filename' = [filename EXCEPT ![p] = Filenames[1]]
  /\ index' = [index EXCEPT ![p] = 0]
  /\ pc' = [pc EXCEPT ![p] = "scan"]
  /\ Observe(p)
  /\ UNCHANGED <<fs, error, chosen, console, exported, globals>>

\* The loop of line 114 moves to "./public", or ends and line 126 is next.
NextFile(p) ==
  IF filename[p] = Filenames[1]
  THEN /\ filename' = [filename EXCEPT ![p] = Filenames[2]]
       /\ index' = [index EXCEPT ![p] = 0]
       /\ pc' = [pc EXCEPT ![p] = "scan"]
  ELSE /\ pc' = [pc EXCEPT ![p] = "write_private"]
       /\ UNCHANGED <<filename, index>>

\* lines 117-120: one evaluation of `while (fs.existsSync(file(index)))`
Scan(p) ==
  /\ pc[p] = "scan"
  /\ IF existsSync(fs, file(filename[p], index[p]))
     THEN /\ index' = [index EXCEPT ![p] = index[p] + 1]
          /\ UNCHANGED <<pc, filename, chosen>>
     ELSE /\ chosen' = [chosen EXCEPT ![p][filename[p]] = <<index[p]>>]
          /\ IF index[p] > 0
             THEN /\ pc' = [pc EXCEPT ![p] = "rename"]
                  /\ UNCHANGED <<filename, index>>
             ELSE NextFile(p)
  /\ Observe(p)
  /\ UNCHANGED <<fs, privateKey, publicKey, error, console, exported, generated, globals>>

\* lines 121-122: fs.renameSync(file(0), file(index)); ENOENT is not caught
Rename(p) ==
  /\ pc[p] = "rename"
  /\ IF existsSync(fs, file(filename[p], 0))
     THEN /\ fs' = RenameFile(fs, file(filename[p], 0), RenameTarget(filename[p], index[p]))
          /\ NextFile(p)
          /\ error' = error
     ELSE /\ error' = [error EXCEPT ![p] = <<FsError(fs, file(filename[p], 0), "rename")>>]
          /\ pc' = [pc EXCEPT ![p] = "crashed"]
          /\ UNCHANGED <<fs, filename, index>>
  /\ Observe(p)
  /\ UNCHANGED <<privateKey, publicKey, chosen, console, exported, generated, globals>>

\* line 126: fs.writeFileSync("./private.key", privateKey)
WritePrivateKey(p) ==
  /\ pc[p] = "write_private"
  /\ fs' = WriteFile(fs, DefaultPrivatePath, privateKey[p][1], umask)
  /\ pc' = [pc EXCEPT ![p] = "chmod_private"]
  /\ Observe(p)
  /\ UNCHANGED <<privateKey, publicKey, error, filename, index, chosen, console, exported,
                 generated, globals>>

\* A chmodSync of lines 127 / 129; ENOENT is not caught.
ChmodStep(p, path, mode, next) ==
  /\ IF existsSync(fs, path)
     THEN /\ fs' = Chmod(fs, path, mode)
          /\ pc' = [pc EXCEPT ![p] = next]
          /\ error' = error
     ELSE /\ error' = [error EXCEPT ![p] = <<FsError(fs, path, "chmod")>>]
          /\ pc' = [pc EXCEPT ![p] = "crashed"]
          /\ fs' = fs
  /\ Observe(p)
  /\ UNCHANGED <<privateKey, publicKey, filename, index, chosen, console, exported,
                 generated, globals>>

\* line 127: fs.chmodSync("./private.key", "600")
PrivateKeyMode == "600"

ChmodPrivateKey(p) ==
  /\ pc[p] = "chmod_private"
  /\ ChmodStep(p, DefaultPrivatePath, PrivateKeyMode, "write_public")

\* line 128: fs.writeFileSync("./public.key", publicKey)
WritePublicKey(p) ==
  /\ pc[p] = "write_public"
  /\ fs' = WriteFile(fs, DefaultPublicPath, publicKey[p][1], umask)
  /\ pc' = [pc EXCEPT ![p] = "chmod_public"]
  /\ Observe(p)
  /\ UNCHANGED <<privateKey, publicKey, error, filename, index, chosen, console, exported,
                 generated, globals>>

\* line 129: fs.chmodSync("./public.key", "644")
PublicKeyMode == "644"

ChmodPublicKey(p) ==
  /\ pc[p] = "chmod_public"
  /\ ChmodStep(p, DefaultPublicPath, PublicKeyMode, "export")

\* lines 131-133: the resolved material is put on config
Export(p) ==
  /\ pc[p] = "export"
  /\ exported' = [exported EXCEPT ![p] = <<ExportedKeys(privateKey[p][1], publicKey[p][1])>>]
  /\ pc' = [pc EXCEPT ![p] = "done"]
  /\ Observe(p)
  /\ UNCHANGED <<fs, privateKey, publicKey, error, filename, index, chosen, console,
                 generated, globals>>

\* How a finished run ended, read off its last log line (line 95 or line 109).
Outcome(p) == IF console[p] = LoadedMessage THEN "Loaded" ELSE "Regenerated"

\* The server is started again right after a successful start, with the same
\* configuration, on the directory the first start left.
Restart ==
  /\ run = 1
  /\ procs = {1}
  /\ pc[1] = "done"
  /\ run' = 2
  /\ first' = <<[outcome |-> Outcome(1), keys |-> exported[1][1]]>>
  /\ fs0' = fs
  /\ pc' = [pc EXCEPT ![1] = "start"]
  /\ privateKey' = [privateKey EXCEPT ![1] = Undefined]
  /\ publicKey' = [publicKey EXCEPT ![1] = Undefined]
  /\ error' = [error EXCEPT ![1] = Undefined]
  /\ filename' = [filename EXCEPT ![1] = ""]
  /\ index' = [index EXCEPT ![1] = 0]
  /\ chosen' = [chosen EXCEPT ![1] = NoChoice]
  /\ console' = [console EXCEPT ![1] = ""]
  /\ exported' = [exported EXCEPT ![1] = Undefined]
  /\ UNCHANGED <<fs, env, umask, procs, generated, overlapped>>

----------------------------------------------------------------------------
(* Initial directories and configurations *)

OldFile(bytes, mode, readable) == [bytes |-> bytes, mode |-> mode, readable |-> readable]

\* What may be at a private key path before the start: nothing, the private key
\* of pair "A", bytes that are no key, or a file that cannot be read (EACCES).
PrivateFiles ==
  {Undefined, <<OldFile(PrivatePem("A"), "600", TRUE)>>, <<OldFile(Junk("private"), "600", TRUE)>>,
   <<OldFile(PrivatePem("A"), "600", FALSE)>>}

\* At a public key path: nothing, the public key of pair "A", the public key of
\* another pair, bytes that are no key, or a file that cannot be read.
PublicFiles ==
  {Undefined, <<OldFile(PublicPem("A"), "644", TRUE)>>, <<OldFile(PublicPem("B"), "644", TRUE)>>,
   <<OldFile(Junk("public"), "644", TRUE)>>, <<OldFile(PublicPem("A"), "644", FALSE)>>}

\* An earlier backup: each holds bytes of its own.
BackupFile(name, i) == OldFile([kind |-> "old", id |-> file(name, i)], "644", TRUE)

\* The directory built from a set of <<path, <<file>> or <<>> >> entries.
Directory(entries) ==
  LET present == {e \in entries : e[2] # Undefined}
  IN [path \in {e[1] : e \in present} |-> (CHOOSE e \in present : e[1] = path)[2][1]]

PrivatePathSettings == {Undefined, <<"">>, <<DefaultPrivatePath>>, <<CustomPrivatePath>>}
PublicPathSettings == {Undefined, <<"">>, <<DefaultPublicPath>>, <<CustomPublicPath>>}

InitLocals ==
  /\ pc = [p \in Procs |-> "start"]
  /\ privateKey = [p \in Procs |-> Undefined]
  /\ publicKey = [p \in Procs |-> Undefined]
  /\ error = [p \in Procs |-> Undefined]
  /\ filename = [p \in Procs |-> ""]
  /\ index = [p \in Procs |-> 0]
  /\ chosen = [p \in Procs |-> NoChoice]
  /\ console = [p \in Procs |-> ""]
  /\ exported = [p \in Procs |-> Undefined]
  /\ generated = 0
  /\ run = 1
  /\ first = Undefined
  /\ overlapped = FALSE

InitDirectory(privateFiles, publicFiles, customPrivate, customPublic) ==
  \E priv \in privateFiles, pub \in publicFiles,
     privBackups \in SUBSET (1..MaxBackup), pubBackups \in SUBSET (1..MaxBackup) :
    /\ fs = Directory({<<DefaultPrivatePath, priv>>, <<DefaultPublicPath, pub>>,
                       <<CustomPrivatePath, customPrivate>>, <<CustomPublicPath, customPublic>>}
                      \cup {<<file(Filenames[1], i), <<BackupFile(Filenames[1], i)>> >> : i \in privBackups}
                      \cup {<<file(Filenames[2], i), <<BackupFile(Filenames[2], i)>> >> : i \in pubBackups})
    /\ fs0 = fs

\* One server start (and the start after it): any configuration of the key paths.
Init ==
  /\ InitLocals
  /\ procs = {1}
  /\ umask \in {"022", "077"}
  /\ \E pp \in PrivatePathSettings, up \in PublicPathSettings, alg \in Algorithms :
       /\ env = [privateKeyPath |-> pp, publicKeyPath |-> up, jwtAlgorithm |-> alg]
       /\ \E cpriv \in IF pp = <<CustomPrivatePath>> THEN PrivateFiles ELSE {Undefined},
             cpub \in IF up = <<CustomPublicPath>> THEN PublicFiles ELSE {Undefined} :
            InitDirectory(PrivateFiles, PublicFiles, cpriv, cpub)

Next ==
  \/ Restart
  \/ \E p \in procs : ReadPrivateKey(p)
  \/ \E p \in procs : ReadPublicKey(p)
  \/ \E p \in procs : Validate(p)
  \/ \E p \in procs : Catch(p)
  \/ \E p \in procs : Generate(p)
  \/ \E p \in procs : Scan(p)
  \/ \E p \in procs : Rename(p)
  \/ \E p \in procs : WritePrivateKey(p)
  \/ \E p \in procs : ChmodPrivateKey(p)
  \/ \E p \in procs : WritePublicKey(p)
  \/ \E p \in procs : ChmodPublicKey(p)
  \/ \E p \in procs : Export(p)

Spec == Init /\ [][Next]_vars

\* Two servers started on the same directory with the default paths, the
\* default algorithm and the usual umask; ./public.key is absent or holds a key.
InitConc ==
  /\ InitLocals
  /\ procs = {1, 2}
  /\ umask = "022"
  /\ env = [privateKeyPath |-> Undefined, publicKeyPath |-> Undefined, jwtAlgorithm |-> "RS256"]
  /\ InitDirectory(PrivateFiles, {Undefined, <<OldFile(PublicPem("A"), "644", TRUE)>>},
                   Undefined, Undefined)

NextConc ==
  \/ \E p \in procs : ReadPrivateKey(p)
  \/ \E p \in procs : ReadPublicKey(p)
  \/ \E p \in procs : Validate(p)
  \/ \E p \in procs : Catch(p)
  \/ \E p \in procs : Generate(p)
  \/ \E p \in procs : Scan(p)
  \/ \E p \in procs : Rename(p)
  \/ \E p \in procs : WritePrivateKey(p)
  \/ \E p \in procs : ChmodPrivateKey(p)
  \/ \E p \in procs : WritePublicKey(p)
  \/ \E p \in procs : ChmodPublicKey(p)
  \/ \E p \in procs : Export(p)

SpecConc == InitConc /\ [][NextConc]_vars

----------------------------------------------------------------------------
(* What the properties below speak of *)

\* A key path is configured explicitly (a non-empty JTW_..._KEY_PATH).
ExplicitPath == TruthyString(env.privateKeyPath) \/ TruthyString(env.publicKeyPath)

\* The run started with both files readable at the paths it resolves.
BothReadable == CanRead(fs0, PrivatePathOf(env)) /\ CanRead(fs0, PublicPathOf(env))

\* The result of the keypair test on what the run loads.
LoadedRoundTrip ==
  RoundTrip(fs0[PrivatePathOf(env)].bytes, fs0[PublicPathOf(env)].bytes, env.jwtAlgorithm)

\* Loading or validating fails in this run.
LoadFails == ~BothReadable \/ LoadedRoundTrip # "ok"

\* The positions of lines 109-129: generating, rotating, writing.
Regenerating ==
  {"generate", "scan", "rename", "write_private", "chmod_private", "write_public", "chmod_public"}

\* The run generated a keypair.
Regenerated(p) == console[p] = GeneratingMessage

\* The backup index the scenario of P3 / P4 names: 1, or 2 when backup.1 is taken.
FirstOrSecond(name) == IF existsSync(fs0, file(name, 1)) THEN 2 ELSE 1

\* name's default file was moved to backup.1 (to backup.2 with backup.1 taken and
\* left as it was).
RotatedToFirstOrSecond(name) ==
  /\ existsSync(fs, file(name, FirstOrSecond(name)))
  /\ fs[file(name, FirstOrSecond(name))] = fs0[file(name, 0)]
  /\ existsSync(fs0, file(name, 1)) =>
       existsSync(fs, file(name, 1)) /\ fs[file(name, 1)] = fs0[file(name, 1)]

\* The default paths hold the pair the run exported.
DefaultsHoldExported(p) ==
  /\ existsSync(fs, DefaultPrivatePath) /\ existsSync(fs, DefaultPublicPath)
  /\ exported[p] # Undefined
  /\ fs[DefaultPrivatePath].bytes = exported[p][1].privateKey
  /\ fs[DefaultPublicPath].bytes = exported[p][1].publicKey

----------------------------------------------------------------------------
(* C1 *)

\* Both default files are there and readable, no path is configured, and the
\* loaded pair fails the keypair test.
InvalidDefaultPair ==
  /\ ~ExplicitPath
  /\ BothReadable
  /\ LoadedRoundTrip # "ok"

\* C1 as stated: with an invalid pair at the default paths and no configured path,
\* the run does not abort; it ends done, having moved ./private.key and
\* ./public.key to backup.1 (backup.2 when backup.1 is taken, backup.1 untouched)
\* and written the freshly generated pair to the default paths.
C1_InvalidDefaultPairIsRotated ==
  \A p \in procs :
    (InvalidDefaultPair /\ pc[p] \in Terminal)
      => /\ pc[p] = "done"
         /\ Regenerated(p)
         /\ RotatedToFirstOrSecond(Filenames[1])
         /\ RotatedToFirstOrSecond(Filenames[2])
         /\ DefaultsHoldExported(p)

\* No path is configured, ./private.key is absent and ./public.key is there.
OnlyPublicKeyPresent ==
  /\ ~ExplicitPath
  /\ ~existsSync(fs0, DefaultPrivatePath)
  /\ existsSync(fs0, DefaultPublicPath)
  /\ ~existsSync(fs0, file(Filenames[2], 1)) \/ ~existsSync(fs0, file(Filenames[2], 2))

\* C1 amended: with an invalid pair at the default paths and no configured path the
\* run changes nothing on disk and ends with exit(1); the rotation to backup.1
\* (backup.2 when backup.1 is taken, backup.1 untouched) and the writing of a fresh
\* pair happen when ./private.key is absent and ./public.key is present.
C1_InvalidDefaultPairIsFatal ==
  \A p \in procs :
    /\ InvalidDefaultPair =>
         /\ fs = fs0
         /\ pc[p] \notin Regenerating
         /\ pc[p] \in Terminal => pc[p] = "fatal"
    /\ (OnlyPublicKeyPresent /\ pc[p] \in Terminal) =>
         /\ pc[p] = "done"
         /\ Regenerated(p)
         /\ RotatedToFirstOrSecond(Filenames[2])
         /\ DefaultsHoldExported(p)

C1_Witness ==
  /\ InvalidDefaultPair
  /\ pc[1] = "fatal"
  /\ existsSync(fs0, file(Filenames[1], 1))

----------------------------------------------------------------------------
(* C2 *)

\* Bytes of a key file were read before the failure: the private key, read first.
BytesRead == CanRead(fs0, PrivatePathOf(env))

\* A configured path names a file that is not there.
ConfiguredPathMissing ==
  \/ TruthyString(env.privateKeyPath) /\ ~existsSync(fs0, PrivatePathOf(env))
  \/ TruthyString(env.publicKeyPath) /\ ~existsSync(fs0, PublicPathOf(env))

\* A failed load with a configured path or with bytes read ends with exit(1) and
\* the directory as it was.
FailedLoadIsFatal(p) ==
  (LoadFails /\ (ExplicitPath \/ BytesRead)) =>
    /\ fs = fs0
    /\ pc[p] \notin Regenerating
    /\ pc[p] \in Terminal => pc[p] = "fatal"

\* C2 as stated: a failed load with a configured path or with bytes read is fatal
\* and changes nothing; and a configured path naming a missing file is fatal with
\* the missing-file diagnostic.
C2_FatalAndMissingFileDiagnostic ==
  \A p \in procs :
    /\ FailedLoadIsFatal(p)
    /\ (ConfiguredPathMissing /\ pc[p] \in Terminal) =>
         pc[p] = "fatal" /\ console[p] = MissingFileMessage

\* The private key file, read first, is there but cannot be read.
PrivateKeyUnreadable ==
  existsSync(fs0, PrivatePathOf(env)) /\ ~CanRead(fs0, PrivatePathOf(env))

\* C2 amended: as C2, but a configured path naming a missing file gets the
\* missing-file diagnostic unless the private key file, read first, exists and
\* cannot be read: then the run is fatal with the unknown-error diagnostic.
C2_FatalAndFirstErrorDiagnostic ==
  \A p \in procs :
    /\ FailedLoadIsFatal(p)
    /\ (ConfiguredPathMissing /\ pc[p] \in Terminal) =>
         /\ pc[p] = "fatal"
         /\ console[p] = IF PrivateKeyUnreadable THEN UnknownErrorMessage ELSE MissingFileMessage

C2_Witness ==
  /\ ConfiguredPathMissing
  /\ env.privateKeyPath = Undefined
  /\ existsSync(fs0, DefaultPrivatePath)
  /\ pc[1] = "fatal"
  /\ console[1] = MissingFileMessage

----------------------------------------------------------------------------
(* C3 *)

\* The run caught a read failure that is not "the path does not exist".
UnknownReadError(p) ==
  /\ error[p] # Undefined
  /\ error[p][1].syscall = "open"
  /\ error[p][1].code # "ENOENT"

\* C3 as stated: a read failure other than a missing path always ends with exit(1),
\* whatever is configured and whatever was read; it never leads to generating,
\* renaming or writing.
C3_UnknownReadErrorIsFatal ==
  \A p \in procs :
    UnknownReadError(p) =>
      /\ fs = fs0
      /\ pc[p] \notin Regenerating
      /\ pc[p] \in Terminal => pc[p] = "fatal"

----------------------------------------------------------------------------
(* C4 *)

\* The run loads the default files and they hold a pair that passes the test.
ValidDefaultPair ==
  /\ PrivatePathOf(env) = DefaultPrivatePath
  /\ PublicPathOf(env) = DefaultPublicPath
  /\ BothReadable
  /\ LoadedRoundTrip = "ok"

----------------------------------------------------------------------------
(* C5 *)

\* No key file on disk and no path configured.
NoKeyFiles == ~ExplicitPath /\ DOMAIN fs0 = {}

\* C5 as stated: from an empty directory with the default paths the run ends done,
\* regenerated, with ./private.key (mode 600) and ./public.key (mode 644) holding
\* the exported pair, and that pair passes the keypair test under the configured
\* signing options.
C5_FreshPairPersistedAndValid ==
  \A p \in procs :
    (NoKeyFiles /\ pc[p] \in Terminal) =>
      /\ pc[p] = "done"
      /\ Regenerated(p)
      /\ DefaultsHoldExported(p)
      /\ fs[DefaultPrivatePath].mode = "600"
      /\ fs[DefaultPublicPath].mode = "644"
      /\ RoundTrip(exported[p][1].privateKey, exported[p][1].publicKey, env.jwtAlgorithm) = "ok"

----------------------------------------------------------------------------
(* C6 *)

\* C6 as stated: the start right after a successful start changes nothing on
\* disk, never regenerates, never aborts, and ends done having loaded the very
\* material the first start exported.
C6_SecondRunLoadsSameKeys ==
  run = 2 =>
    /\ fs = fs0
    /\ pc[1] \notin Regenerating
    /\ pc[1] \in Terminal =>
         /\ pc[1] = "done"
         /\ console[1] = LoadedMessage
         /\ exported[1] = <<first[1].keys>>

----------------------------------------------------------------------------
(* C7 *)

\* The run caught an exception of the keypair test (jwt.sign or jwt.verify).
ValidationFailed(p) == error[p] # Undefined /\ error[p][1].syscall = "undefined"

\* C7 as stated: every exception of the signing or the verifying step is reported,
\* on the fatal path, with the invalid-keypair diagnostic, which differs from the
\* missing-file and the unknown-error diagnostics.
C7_ValidationFailureDiagnostic ==
  /\ InvalidKeypairMessage \notin {MissingFileMessage, UnknownErrorMessage}
  /\ \A p \in procs :
       (ValidationFailed(p) /\ pc[p] \in Terminal) =>
         pc[p] = "fatal" /\ console[p] = InvalidKeypairMessage

----------------------------------------------------------------------------
(* C8 *)

\* The smallest i >= 0 such that file(name, i) is not in directory f.
LowestFree(f, name) ==
  CHOOSE i \in 0..Cardinality(DOMAIN f) :
    /\ ~existsSync(f, file(name, i))
    /\ \A j \in 0..(i - 1) : existsSync(f, file(name, j))

\* The loop body of lines 115-123 is over for name.
Rotated(p, name) ==
  /\ chosen[p][name] # Undefined
  /\ ~(filename[p] = name /\ pc[p] \in {"rename", "crashed"})

\* Rotation of name is over and the new key of name is not written yet.
BeforeWrite(p, name) ==
  /\ Rotated(p, name)
  /\ IF name = Filenames[1] THEN pc[p] \in {"scan", "rename", "write_private"}
     ELSE pc[p] \in {"write_private", "chmod_private", "write_public"}

\* C8: in a run that regenerates, for "./private" and "./public" alike: the index
\* the scan ends with is the smallest whose candidate did not exist; the default
\* file is renamed to that candidate exactly when it existed; every file other than
\* the two default files is kept as it was (no backup is overwritten, removed or
\* changed); the default path is free between rotation and the write; and every
\* file present at the start is still on disk, under some path, at every moment.
C8_RotationKeepsEverything ==
  \A p \in procs :
    /\ \A name \in {Filenames[1], Filenames[2]} :
         /\ chosen[p][name] # Undefined => chosen[p][name][1] = LowestFree(fs0, name)
         /\ Rotated(p, name) =>
              IF existsSync(fs0, file(name, 0))
              THEN /\ chosen[p][name][1] > 0
                   /\ existsSync(fs, file(name, chosen[p][name][1]))
                   /\ fs[file(name, chosen[p][name][1])] = fs0[file(name, 0)]
              ELSE /\ chosen[p][name][1] = 0
                   /\ \A i \in 1..Cardinality(DOMAIN fs0) :
                        existsSync(fs, file(name, i)) = existsSync(fs0, file(name, i))
         /\ BeforeWrite(p, name) => ~existsSync(fs, file(name, 0))
    /\ \A path \in DOMAIN fs0 \ {DefaultPrivatePath, DefaultPublicPath} :
         existsSync(fs, path) /\ fs[path] = fs0[path]
    /\ \A path \in DOMAIN fs0 : \E kept \in DOMAIN fs : fs[kept] = fs0[path]

\* A finished regenerating run that moved ./private.key past an occupied backup.1
\* to backup.2 while ./public.key went to backup.1 over a gap before backup.2.
C8_Witness ==
  /\ pc[1] = "done"
  /\ Regenerated(1)
  /\ chosen[1][Filenames[1]] = <<2>>
  /\ chosen[1][Filenames[2]] = <<1>>
  /\ existsSync(fs0, file(Filenames[2], 2))

----------------------------------------------------------------------------
(* C9 *)

AllTerminal == \A p \in procs : pc[p] \in Terminal

\* Bytes that were on disk at the start are on disk nowhere.
ContentLost == \E path \in DOMAIN fs0 : \A kept \in DOMAIN fs : fs[kept].bytes # fs0[path].bytes

\* All runs are over and the two default files hold halves of different pairs.
MixedPair ==
  /\ AllTerminal
  /\ existsSync(fs, DefaultPrivatePath) /\ existsSync(fs, DefaultPublicPath)
  /\ fs[DefaultPrivatePath].bytes.kind = "private"
  /\ fs[DefaultPublicPath].bytes.kind = "public"
  /\ fs[DefaultPrivatePath].bytes.id # fs[DefaultPublicPath].bytes.id
  /\ \E p \in procs : Regenerated(p)

\* All runs are over and a run that ended done exported other material than the
\* default files hold.
StaleExport == AllTerminal /\ \E p \in procs : pc[p] = "done" /\ ~DefaultsHoldExported(p)

\* A run died on an uncaught exception of rename or chmod.
Crashed == \E p \in procs : pc[p] = "crashed"

\* C9: two runs interleaved call by call on one directory can break what a single
\* run guarantees (the witness: content lost from disk), and they break it only
\* when they overlap: with one run over before the other takes its first step
\* nothing is lost, no run crashes, and the default files hold one pair, the one
\* every finished run exported.
C9_UnsafeOnlyWhenOverlapped ==
  (ContentLost \/ MixedPair \/ StaleExport \/ Crashed) => overlapped

\* Both runs are over, the key that ./public.key held at the start is gone from
\* disk, and a run renamed with an index it had computed too early.
C9_Witness ==
  /\ AllTerminal
  /\ ContentLost
  /\ chosen[1][Filenames[2]] = chosen[2][Filenames[2]]
  /\ chosen[1][Filenames[2]] # Undefined

C9_WitnessMixedPair == MixedPair /\ \A p \in procs : pc[p] = "done"

C9_WitnessStaleExport == StaleExport /\ ~MixedPair /\ ~ContentLost /\ ~Crashed

----------------------------------------------------------------------------
(* C10 *)

\* C10 as stated: whenever ./private.key holds the private key this run generated,
\* its mode is 600.
C10_NewPrivateKeyNeverExposed ==
  \A p \in procs :
    (Regenerated(p) /\ existsSync(fs, DefaultPrivatePath)
       /\ privateKey[p] = <<fs[DefaultPrivatePath].bytes>>)
      => fs[DefaultPrivatePath].mode = PrivateKeyMode

====
